---- MODULE Spec2Model ----
(***************************************************************************)
(* A model of the retrieval-augmented answering pipeline of AOR:           *)
(*   - FileProcessorService._create_chunks   (the chunker)                 *)
(*   - LLMService.generate_response          (the answerer's retry loop)   *)
(*   - VectorStoreService.insert_chunks / search_similar_chunks            *)
(*   - the build phase and the query phase that wire them together         *)
(* Python strings are sequences of one-character strings; Python indices   *)
(* are 0-based, so position i of a text is text[i + 1] here.               *)
(***************************************************************************)
EXTENDS Integers, Sequences, FiniteSets, TLC

VARIABLES
    \* ---- FileProcessorService._create_chunks
    text,           \* the text handed to _create_chunks
    chunk_size,     \* self.chunk_size
    chunk_overlap,  \* self.chunk_overlap
    start,          \* local `start`
    chunk_index,    \* local `chunk_index`
    chunks,         \* local `chunks`, the list that is returned
    windows,        \* every window [start, end) the loop has examined, in order
    cpc,            \* position in _create_chunks: "call", "loop", "return"
    \* ---- LLMService.generate_response
    max_retries,    \* parameter max_retries
    attempt,        \* loop variable `attempt`
    requests,       \* number of requests.post calls made so far
    last_reply,     \* what the endpoint did with the request being handled
    log,            \* per finished attempt: how it ended and the time.sleep made after it
    llm_result,     \* the value generate_response returns
    lpc,            \* position in generate_response: "call", "send", "reply", "return",
                    \* or "raised" when an exception leaves it
    \* ---- VectorStoreService (the Milvus collection) and EmbeddingService
    collection,     \* the entities inserted into the collection, in insertion order
    flushed,        \* how many of them a successful flush has persisted
    next_id,        \* source of fresh chunk ids (generate_chunk_id's random suffix)
    candidates,     \* a list of optional embeddings, as handed to find_most_similar
    last_op,        \* the last call made on the services, with its arguments and result
    \* ---- AORApplication._process_call_for_tenders
    questions,      \* local `questions`, the extracted question records
    qi,             \* loop variable `i` of the question loop
    questions_with_responses,   \* local counter of the same name
    errors,         \* local `errors`: the 1-based numbers of the questions that got an entry
    visits,         \* the values of `i` the loop body has run for, in order
    query_result,   \* the value _process_call_for_tenders returns
    qpc,            \* position in _process_call_for_tenders: "loop", "save", "done"
    \* ---- LLMService.generate_responses_batch
    questions_with_context,   \* parameter of the same name: the (question, context) pairs
    batch_retries,  \* parameter max_retries of the batch
    bi,             \* loop variable `i` of the batch
    batch_results,  \* local `results` of the batch
    events,         \* the calls of generate_response and the pauses made, in order
    bpc,            \* position in generate_responses_batch: "item", "return"
    \* ---- FileProcessorService.process_knowledge_base
    kb_files,       \* the knowledge base: per file, in listing order, its name and how
                    \* many chunks _create_chunks makes of its text (the same on every run)
    fi,             \* position of the loop over `files`
    files_processed,    \* local counter of the same name
    total_chunks,   \* local counter of the same name
    total_vectors,  \* local counter of the same name
    stored,         \* how many entities the running build has added to the collection
    runs_log,       \* per finished build run: the IndexingResult and the number stored
    kpc,            \* position in process_knowledge_base: "idle", "loop"
    \* ---- pymilvus connections and the VectorStoreService instances of the process
    instances,      \* the VectorStoreService instances that are alive
    session         \* whether the connection with alias "default" is established

chunkVars == <<text, chunk_size, chunk_overlap, start, chunk_index, chunks, windows, cpc>>

llmVars == <<max_retries, attempt, requests, last_reply, log, llm_result, lpc>>

storeVars == <<collection, flushed, next_id, candidates, last_op>>

queryVars == <<questions, qi, questions_with_responses, errors, visits, query_result, qpc>>

batchVars == <<questions_with_context, batch_retries, bi, batch_results, events, bpc>>

buildVars == <<kb_files, fi, files_processed, total_chunks, total_vectors, stored, runs_log, kpc>>

connVars == <<instances, session>>

vars == <<chunkVars, llmVars, storeVars, queryVars, batchVars, buildVars, connVars>>

\* What an operation of one component leaves alone.
exceptChunk == <<llmVars, storeVars, queryVars, batchVars, buildVars, connVars>>
exceptLLM == <<chunkVars, storeVars, queryVars, batchVars, buildVars, connVars>>
exceptStore == <<chunkVars, llmVars, queryVars, batchVars, buildVars, connVars>>
exceptQuery == <<chunkVars, llmVars, batchVars, buildVars, connVars>>
exceptBatch == <<chunkVars, llmVars, storeVars, queryVars, buildVars, connVars>>
exceptBuild == <<chunkVars, llmVars, storeVars, queryVars, batchVars, connVars>>
exceptBuildAndStore == <<chunkVars, llmVars, queryVars, batchVars, connVars>>
exceptConn == <<chunkVars, llmVars, storeVars, queryVars, batchVars, buildVars>>
exceptConnAndStore == <<chunkVars, llmVars, queryVars, batchVars, buildVars>>

(***************************************************************************)
(* Bounds of the model.                                                    *)
(***************************************************************************)
MaxLen == 6          \* longest enumerated text
MaxChunkSize == 4    \* largest enumerated chunk_size
MaxRetries == 3      \* largest enumerated max_retries
MaxContentLen == 3   \* longest enumerated message content, in tokens
Dim == 2             \* dimension of the embedding vectors
MaxBatch == 2        \* longest enumerated batch of chunks
MaxStored == 3       \* largest collection that is inserted into or searched
MaxQuestions == 2    \* most questions extracted from one call for tenders
MaxFiles == 2        \* most files in the knowledge base
MaxRuns == 2         \* most runs of the build phase
MaxBuilt == 4        \* most chunks that all the build runs together create
MaxInstances == 3    \* most VectorStoreService instances alive at once

\* The loop is cut after this many windows: a run that makes progress needs at
\* most one window per character.
MaxWindows == MaxLen + MaxChunkSize + 2

Max(a, b) == IF a >= b THEN a ELSE b
Min(a, b) == IF a <= b THEN a ELSE b
SetMax(S) == CHOOSE x \in S : \A y \in S : y <= x

(***************************************************************************)
(* Python string primitives used by the chunker.                           *)
(***************************************************************************)
\* The characters of the enumerated texts: a letter, the space that rfind
\* looks for, and a newline (whitespace for strip(), not found by rfind(' ')).
Alphabet == {"a", " ", "\n"}
Whitespace == {" ", "\n"}

\* Python's adjustment of a slice bound to 0..n (negative bounds count from the end).
SliceIndex(i, n) == IF i < 0 THEN Max(i + n, 0) ELSE Min(i, n)

\* s[lo:hi]
Slice(s, lo, hi) ==
    LET l == SliceIndex(lo, Len(s))
        h == SliceIndex(hi, Len(s))
    IN  IF l >= h THEN <<>> ELSE SubSeq(s, l + 1, h)

\* s.rfind(ch, lo, hi): the highest index in s[lo:hi] holding ch, or -1
RFind(s, ch, lo, hi) ==
    LET l == SliceIndex(lo, Len(s))
        h == SliceIndex(hi, Len(s))
        found == {i \in l..(h - 1) : s[i + 1] = ch}
    IN  IF found = {} THEN -1 ELSE SetMax(found)

\* s.strip()
Strip(s) ==
    LET solid == {i \in 1..Len(s) : s[i] \notin Whitespace}
    IN  IF solid = {} THEN <<>>
        ELSE SubSeq(s, CHOOSE i \in solid : \A j \in solid : i <= j, SetMax(solid))

(***************************************************************************)
(* FileProcessorService._create_chunks                                     *)
(***************************************************************************)
\* lines 234-243: the end of the window that starts at s
WindowEnd(t, s, size, overlap) ==
    LET end == s + size
        overlap_start == Max(s, end - overlap)
        last_space == RFind(t, " ", overlap_start, end)
    IN  IF end < Len(t) /\ last_space > s THEN last_space ELSE end

\* A chunker that starts the next window at the end of this one, without overlap.
NextStart_NoOverlap(end, overlap) == end

\* line 267: where the next window starts
NextStart(end, overlap) == end - overlap

\* A single chunk that keeps the text untrimmed.
SingleChunk_Untrimmed(t) ==
    [content |-> t, chunk_index |-> 0, chunk_type |-> "single"]

\* lines 214-224: the chunk of a text shorter than chunk_size
SingleChunk(t) ==
    [content |-> Strip(t), chunk_index |-> 0, chunk_type |-> "single"]

\* A chunk whose index counts from 1.
SplitChunk_OneBased(content, idx, s, e) ==
    [content |-> content, chunk_index |-> idx + 1, chunk_type |-> "split",
     start_char |-> s, end_char |-> e]

\* lines 249-262: the chunk of a window
SplitChunk(content, idx, s, e) ==
    [content |-> content, chunk_index |-> idx, chunk_type |-> "split",
     start_char |-> s, end_char |-> e]

\* lines 211-230: the short-text branch, or the set-up of the windowing loop
CreateChunksCall ==
    /\ cpc = "call"
    /\ IF text = <<>> \/ Len(Strip(text)) < chunk_size
       THEN /\ chunks' = IF Strip(text) # <<>> THEN <<SingleChunk(text)>> ELSE <<>>
            /\ cpc' = "return"
       ELSE /\ chunks' = <<>>
            /\ cpc' = "loop"
    /\ start' = 0
    /\ chunk_index' = 0
    /\ UNCHANGED <<text, chunk_size, chunk_overlap, windows>>
    /\ UNCHANGED exceptChunk

\* lines 232-271: one iteration of the windowing loop
CreateChunksLoop ==
    /\ cpc = "loop"
    /\ Len(windows) < MaxWindows
    /\ LET end == WindowEnd(text, start, chunk_size, chunk_overlap)
           chunk_text == Strip(Slice(text, start, end))
           next == NextStart(end, chunk_overlap)
       IN  /\ IF chunk_text # <<>>
              THEN /\ chunks' = Append(chunks, SplitChunk(chunk_text, chunk_index, start, end))
                   /\ chunk_index' = chunk_index + 1
              ELSE UNCHANGED <<chunks, chunk_index>>
           /\ windows' = Append(windows, [start |-> start, end |-> end])
           /\ start' = next
           /\ cpc' = IF next >= Len(text) THEN "return" ELSE "loop"
    /\ UNCHANGED <<text, chunk_size, chunk_overlap>>
    /\ UNCHANGED exceptChunk

\* The texts and configurations the chunker is run on: every text over Alphabet
\* up to MaxLen characters with every 0 <= chunk_overlap < chunk_size <= MaxChunkSize,
\* and the scenario text with chunk_size 10 and chunk_overlap 3.
ScenarioText ==
    <<"a","a","a","a"," ","a","a","a","a"," ","a","a","a","a"," ","a","a","a","a">>

ChunkInit ==
    /\ \/ /\ text \in UNION {[1..n -> Alphabet] : n \in 0..MaxLen}
          /\ chunk_size \in 1..MaxChunkSize
          /\ chunk_overlap \in 0..(chunk_size - 1)
       \/ /\ text = ScenarioText
          /\ chunk_size = 10
          /\ chunk_overlap = 3
    /\ start = 0
    /\ chunk_index = 0
    /\ chunks = <<>>
    /\ windows = <<>>
    /\ cpc = "call"

ChunkNext == CreateChunksCall \/ CreateChunksLoop

(***************************************************************************)
(* LLMService.generate_response                                            *)
(***************************************************************************)
\* Confidence values are counted in tenths: ConfOne stands for 1.0.
ConfOne == 10

None == [tag |-> "None"]
NoReply == [kind |-> "none"]

\* A JSON object is a function from its keys to its values. A confidence value
\* is a number (in tenths) or a string that float() cannot convert.
Num(v) == [type |-> "number", value |-> v]
NotANumber == [type |-> "string", value |-> 0]
ConfidenceValues == {Num(0 - 5), Num(7), Num(ConfOne + 5), NotANumber}

JsonObjects ==
    {[k \in keys |->
        CASE k = "reponse" -> "r"
          [] k = "confiance" -> c
          [] k = "sources" -> <<"s1">>] :
        keys \in (SUBSET {"reponse", "confiance", "sources"}) \ {{}},
        c \in ConfidenceValues}
EmptyObject == [k \in {} |-> "r"]

\* A message content is a sequence of tokens: "x" is a stretch of prose, "{"
\* and "}" are braces, "kv" is a well-formed list of members, the members of
\* `members`.
Tokens == {"x", "{", "}", "kv"}
Contents ==
    {[tokens |-> t, members |-> m] :
        t \in UNION {[1..n -> Tokens] : n \in 0..MaxContentLen},
        m \in JsonObjects}

\* What the endpoint can do with one request.
Replies ==
    {[kind |-> "timeout"], [kind |-> "connection_error"]}
    \cup {[kind |-> "http", status |-> 500, body |-> "text"]}
    \cup {[kind |-> "http", status |-> 200, body |-> b] :
            b \in {"text", "no_choices", "empty_choices"}}
    \cup {[kind |-> "http", status |-> 200, body |-> "choices", content |-> c] :
            c \in Contents}

\* json_utils.safe_json_loads on a span of tokens: the parsed object, or None
SafeJsonLoads(tokens, members) ==
    IF tokens = <<"{", "kv", "}">> THEN members
    ELSE IF tokens = <<"{", "}">> THEN EmptyObject
    ELSE None

\* json_utils.extract_json_from_text: parse from the first "{" to the last "}"
ExtractJsonFromText(c) ==
    LET opens == {i \in 1..Len(c.tokens) : c.tokens[i] = "{"}
        closes == {i \in 1..Len(c.tokens) : c.tokens[i] = "}"}
        start_idx == IF opens = {} THEN -1 ELSE (CHOOSE i \in opens : \A j \in opens : i <= j) - 1
        end_idx == IF closes = {} THEN -1 ELSE SetMax(closes) - 1
    IN  IF start_idx # -1 /\ end_idx # -1 /\ end_idx > start_idx
        THEN SafeJsonLoads(SubSeq(c.tokens, start_idx + 1, end_idx + 1), c.members)
        ELSE None

\* `if not json_data`: None and the empty object are both falsy
Falsy(json_data) == json_data = None \/ json_data = EmptyObject

\* A validator that accepts any object.
ValidateJsonStructure_AcceptAll(data, required_keys) == TRUE

\* json_utils.validate_json_structure
ValidateJsonStructure(data, required_keys) ==
    \A key \in required_keys : key \in DOMAIN data

RequiredKeys == {"reponse", "confiance"}

\* dict.get(key, default)
Get(data, key, default) == IF key \in DOMAIN data THEN data[key] ELSE default

\* float(x) raises for a string that is no number
FloatRaises(x) == x.type # "number"

\* A response model without the range constraint on confiance.
LLMResponseRaises_NoRange(confiance) == FALSE

\* data_models.LLMResponse: Field(..., ge=0.0, le=1.0) rejects a confiance
\* outside [0, 1] with a validation error
LLMResponseRaises(confiance) == confiance < 0 \/ confiance > ConfOne

\* lines 155-159: the response built from a validated object
LLMResponse(json_data) ==
    [tag |-> "LLMResponse",
     reponse |-> Get(json_data, "reponse", ""),
     confiance |-> Get(json_data, "confiance", Num(0)).value,
     sources |-> Get(json_data, "sources", <<>>)]

\* lines 123-174: how one attempt ends.
\*   "timeout"   requests.exceptions.Timeout is caught (line 164)
\*   "exception" any other exception is caught (line 170)
\*   "continue"  a soft failure that goes straight to the next attempt
\*   "ok"        a response is returned
Outcome(reply) ==
    IF reply.kind = "timeout" THEN "timeout"
    ELSE IF reply.kind = "connection_error" THEN "exception"
    ELSE IF reply.status # 200 THEN "continue"
    ELSE IF reply.body = "text" THEN "exception"           \* response.json() raises
    ELSE IF reply.body = "empty_choices" THEN "exception"  \* [][0] raises IndexError
    ELSE IF reply.body = "no_choices" THEN "continue"      \* content defaults to ""
    ELSE IF reply.content.tokens = <<>> THEN "continue"
    ELSE LET json_data == ExtractJsonFromText(reply.content)
         IN  IF Falsy(json_data) THEN "continue"
             ELSE IF ~ValidateJsonStructure(json_data, RequiredKeys) THEN "continue"
             ELSE IF FloatRaises(Get(json_data, "confiance", Num(0))) THEN "exception"
             ELSE IF LLMResponseRaises(Get(json_data, "confiance", Num(0)).value)
                  THEN "exception"
             ELSE "ok"

\* 2 ** n
RECURSIVE Pow2(_)
Pow2(n) == IF n <= 0 THEN 1 ELSE 2 * Pow2(n - 1)

\* lines 164-174: the time.sleep made after a failed attempt (0: none)
SleepAfter(outcome, a, retries) ==
    IF a < retries - 1
    THEN CASE outcome = "timeout" -> Pow2(a)
           [] outcome = "exception" -> 1
           [] OTHER -> 0
    ELSE 0

\* A loop that tries once more than max_retries.
AttemptsLeft_OneMore(a, retries) == a < retries + 1

\* line 106: for attempt in range(max_retries)
AttemptsLeft(a, retries) == a < retries

\* Handlers that catch the timeout only.
Caught_TimeoutOnly(outcome) == outcome = "timeout"

\* lines 164 and 170: `except requests.exceptions.Timeout` and `except
\* Exception` around the whole body of the attempt
Caught(outcome) == outcome = "timeout" \/ outcome = "exception"

\* line 106: entering the loop
GenerateResponseCall ==
    /\ lpc = "call"
    /\ attempt' = 0
    /\ IF AttemptsLeft(0, max_retries)
       THEN lpc' = "send" /\ UNCHANGED llm_result
       ELSE lpc' = "return" /\ llm_result' = None
    /\ UNCHANGED <<max_retries, requests, last_reply, log>>
    /\ UNCHANGED exceptLLM

\* lines 108-128: one attempt sends one request
GenerateResponseSend ==
    /\ lpc = "send"
    /\ requests' = requests + 1
    /\ \E reply \in Replies : last_reply' = reply
    /\ lpc' = "reply"
    /\ UNCHANGED <<max_retries, attempt, log, llm_result>>
    /\ UNCHANGED exceptLLM

\* lines 130-177: the attempt's reply is handled
GenerateResponseHandle ==
    /\ lpc = "reply"
    /\ LET outcome == Outcome(last_reply)
       IN  /\ log' = Append(log, [outcome |-> outcome,
                                  slept |-> SleepAfter(outcome, attempt, max_retries)])
           /\ IF outcome = "ok"
              THEN /\ llm_result' = LLMResponse(ExtractJsonFromText(last_reply.content))
                   /\ lpc' = "return"
                   /\ UNCHANGED <<attempt, last_reply>>
              ELSE IF outcome \in {"timeout", "exception"} /\ ~Caught(outcome)
              THEN /\ lpc' = "raised"
                   /\ UNCHANGED <<attempt, last_reply, llm_result>>
              ELSE /\ attempt' = attempt + 1
                   /\ IF AttemptsLeft(attempt + 1, max_retries)
                      THEN /\ lpc' = "send"
                           /\ last_reply' = NoReply
                           /\ UNCHANGED llm_result
                      ELSE /\ lpc' = "return"
                           /\ llm_result' = None
                           /\ UNCHANGED last_reply
    /\ UNCHANGED <<max_retries, requests>>
    /\ UNCHANGED exceptLLM

LLMInit ==
    /\ max_retries \in 0..MaxRetries
    /\ attempt = 0
    /\ requests = 0
    /\ last_reply = NoReply
    /\ log = <<>>
    /\ llm_result = None
    /\ lpc = "call"

LLMIdle ==
    /\ max_retries = 0
    /\ attempt = 0
    /\ requests = 0
    /\ last_reply = NoReply
    /\ log = <<>>
    /\ llm_result = None
    /\ lpc = "idle"

LLMNext == GenerateResponseCall \/ GenerateResponseSend \/ GenerateResponseHandle

ChunkIdle ==
    /\ text = <<>>
    /\ chunk_size = 1
    /\ chunk_overlap = 0
    /\ start = 0
    /\ chunk_index = 0
    /\ chunks = <<>>
    /\ windows = <<>>
    /\ cpc = "idle"

BatchIdle ==
    /\ questions_with_context = <<>>
    /\ batch_retries = 0
    /\ bi = 0
    /\ batch_results = <<>>
    /\ events = <<>>
    /\ bpc = "idle"

BuildIdle ==
    /\ kb_files = <<>>
    /\ fi = 0
    /\ files_processed = 0
    /\ total_chunks = 0
    /\ total_vectors = 0
    /\ stored = 0
    /\ runs_log = <<>>
    /\ kpc = "idle"

\* No instance constructed yet. The other specifications leave the connection
\* out: there insert_up, search_up and the like say whether the backend serves
\* a call.
ConnIdle ==
    /\ instances = {}
    /\ session = FALSE

QueryIdle ==
    /\ questions = <<>>
    /\ qi = 0
    /\ questions_with_responses = 0
    /\ errors = <<>>
    /\ visits = <<>>
    /\ query_result = None
    /\ qpc = "idle"


(***************************************************************************)
(* Embedding vectors and cosine similarity.                                *)
(***************************************************************************)
\* Scores are counted in hundredths: ScoreOne stands for 1.0.
ScoreOne == 100

\* The vector (x, y, 0, ..., 0) of dimension Dim.
Vec(x, y) == [i \in 1..Dim |-> IF i = 1 THEN x ELSE IF i = 2 THEN y ELSE 0]

\* The embeddings the model produces in this model: their norms are whole
\* numbers, so every cosine below is an exact number of hundredths.
Vectors == {Vec(1, 0), Vec(0, 1), Vec(3, 4)}

RECURSIVE DotUpTo(_, _, _)
DotUpTo(a, b, n) == IF n = 0 THEN 0 ELSE DotUpTo(a, b, n - 1) + a[n] * b[n]

\* np.dot
Dot(a, b) == DotUpTo(a, b, Len(a))

\* np.linalg.norm
Norm(a) ==
    LET sq == Dot(a, a)
    IN  CHOOSE r \in 0..sq : r * r <= sq /\ sq < (r + 1) * (r + 1)

\* The cosine of two non-zero vectors of the same dimension, in hundredths
Cosine(a, b) == (ScoreOne * Dot(a, b)) \div (Norm(a) * Norm(b))

\* A Python list of floats: its items, and whether all of them are finite
\* (no NaN, no Inf). An optional embedding is None or such a list.
List(v) == [tag |-> "list", items |-> v, finite |-> TRUE]
Embeddings == {List(v) : v \in Vectors}

\* `not embedding`: None and the empty list are both falsy
NoEmbedding(e) == e = None \/ e.items = <<>>

(***************************************************************************)
(* VectorStoreService over the Milvus collection.                          *)
(***************************************************************************)
NoOp == [op |-> "none"]

\* The collection's schema (FLOAT_VECTOR, dim = self.dimension) refuses a
\* vector of another length or with a component that is no finite number.
SchemaRefuses(e) == Len(e.items) # Dim \/ ~e.finite

\* The chunks built from a list of optional embeddings: fresh ids, one source.
ChunksOf(embeddings, first_id) ==
    [i \in 1..Len(embeddings) |->
        [id |-> first_id + i - 1, source_file |-> "kb.docx", chunk_index |-> i - 1,
         embedding |-> embeddings[i]]]

\* lines 131-141: the chunks that have an embedding, in order
RECURSIVE WithEmbedding(_)
WithEmbedding(cs) ==
    IF cs = <<>> THEN <<>>
    ELSE LET rest == WithEmbedding(SubSeq(cs, 1, Len(cs) - 1))
             c == cs[Len(cs)]
         IN  IF NoEmbedding(c.embedding) THEN rest ELSE Append(rest, c)

\* lines 116-159: insert_chunks(cs) on collection `coll`. insert_up and
\* flush_up say whether the backend's insert and flush go through.
\* Gives the new collection, the new flushed count and the value returned.
InsertChunksResult(coll, nflushed, cs, insert_up, flush_up) ==
    LET rows == WithEmbedding(cs)
        refused == \E i \in 1..Len(rows) : SchemaRefuses(rows[i].embedding)
    IN  IF cs = <<>> \/ rows = <<>>
        THEN [collection |-> coll, flushed |-> nflushed, ret |-> TRUE, handed |-> <<>>]
        ELSE IF ~insert_up \/ refused
        THEN [collection |-> coll, flushed |-> nflushed, ret |-> FALSE, handed |-> rows]
        ELSE IF ~flush_up
        THEN [collection |-> coll \o rows, flushed |-> nflushed, ret |-> FALSE,
              handed |-> rows]
        ELSE [collection |-> coll \o rows, flushed |-> Len(coll \o rows), ret |-> TRUE,
              handed |-> rows]

\* VectorStoreService.insert_chunks
InsertChunks(embeddings, insert_up, flush_up) ==
    /\ collection = <<>> \/ Len(collection) + Len(embeddings) <= MaxStored
    /\ next_id <= MaxStored
    /\ LET cs == ChunksOf(embeddings, next_id)
           r == InsertChunksResult(collection, flushed, cs, insert_up, flush_up)
       IN  /\ collection' = r.collection
           /\ flushed' = r.flushed
           /\ last_op' = [op |-> "insert_chunks", chunks |-> cs,
                          up |-> insert_up /\ flush_up, ret |-> r.ret]
    /\ next_id' = next_id + Len(embeddings)
    /\ UNCHANGED candidates
    /\ UNCHANGED exceptStore

\* Python's int(True) = 1, int(False) = 0: what `total += inserted` adds
AsInt(b) == IF b THEN 1 ELSE 0

\* Every way to list the k best of the positions `among` (all of them if
\* there are fewer), best first.
RECURSIVE BestFirst(_, _, _)
BestFirst(score, among, k) ==
    IF k = 0 \/ among = {} THEN {<<>>}
    ELSE LET best == {x \in among : \A y \in among : score[x] >= score[y]}
         IN  UNION {{<<x>> \o rest : rest \in BestFirst(score, among \ {x}, k - 1)} :
                    x \in best}

\* A search that answers with every entity, whatever the limit.
MilvusSearch_NoLimit(coll, q, k) ==
    LET score == [i \in 1..Len(coll) |-> Cosine(q.items, coll[i].embedding.items)]
    IN  BestFirst(score, DOMAIN score, Len(coll))

\* collection.search(limit = k) with metric COSINE: the k best entities by
\* score (all of them if there are fewer), best first. Milvus fixes no order
\* among equal scores, so every such order is a possible answer. A hit is the
\* position of its entity in the collection.
MilvusSearch(coll, q, k) ==
    LET score == [i \in 1..Len(coll) |-> Cosine(q.items, coll[i].embedding.items)]
    IN  BestFirst(score, DOMAIN score, k)

\* A filter that keeps the hits at or below the threshold.
Keeps_Below(score, threshold) == score <= threshold

\* line 197: if hit.score >= threshold
Keeps(score, threshold) == score >= threshold

\* A rank that counts from 0.
RankOf_ZeroBased(kept_before, position) == kept_before

\* line 212: rank=len(search_results) + 1
RankOf(kept_before, position) == kept_before + 1

\* lines 194-215: the results built from the hits, in order
RECURSIVE ResultsOf(_, _, _, _)
ResultsOf(coll, q, hits, threshold) ==
    IF hits = <<>> THEN <<>>
    ELSE LET rest == ResultsOf(coll, q, SubSeq(hits, 1, Len(hits) - 1), threshold)
             pos == hits[Len(hits)]
             sc == Cosine(q.items, coll[pos].embedding.items)
         IN  IF Keeps(sc, threshold)
             THEN Append(rest, [chunk |-> coll[pos].id, position |-> pos,
                                similarity_score |-> sc,
                                rank |-> RankOf(Len(rest), Len(hits))])
             ELSE rest

\* A search that sees no entity at all.
Visible_Nothing(coll, nflushed) == {<<>>}

\* What a search can see of the collection: every entity that a flush has
\* persisted, and any of the entities inserted since (line 152: the flush is
\* what makes the inserted data visible for sure).
Visible(coll, nflushed) ==
    {SelectSeq([i \in 1..Len(coll) |-> [entity |-> coll[i], at |-> i]],
               LAMBDA x : x.at <= nflushed \/ x.at \in unflushed) :
        unflushed \in SUBSET ((nflushed + 1)..Len(coll))}

\* The entities of a visible part
EntitiesOf(seen) == [i \in 1..Len(seen) |-> seen[i].entity]

\* lines 174-222: every list search_similar_chunks can return
SearchSimilarChunksResults(coll, q, k, threshold, search_up) ==
    IF ~search_up \/ SchemaRefuses(q)
    THEN {<<>>}
    ELSE {ResultsOf(coll, q, hits, threshold) : hits \in MilvusSearch(coll, q, k)}

\* VectorStoreService.search_similar_chunks
SearchSimilarChunks(q, k, threshold, search_up) ==
    /\ \E seen \in Visible(collection, flushed) :
        \E results \in SearchSimilarChunksResults(EntitiesOf(seen), q, k, threshold,
                                                  search_up) :
          last_op' = [op |-> "search_similar_chunks", query |-> q, limit |-> k,
                      threshold |-> threshold, up |-> search_up, ret |-> results]
    /\ UNCHANGED <<collection, flushed, next_id, candidates>>
    /\ UNCHANGED exceptStore

(***************************************************************************)
(* EmbeddingService.calculate_similarity and find_most_similar             *)
(***************************************************************************)
\* A similarity that is returned as computed.
ClampSimilarity_AsComputed(similarity) == similarity

\* line 143: max(0.0, min(1.0, similarity))
ClampSimilarity(similarity) == Max(0, Min(ScoreOne, similarity))

\* lines 124-147, where `rounding` is the error of the floating-point quotient
\* of line 140, in hundredths. A component that is NaN or infinite makes the
\* quotient NaN: min(1.0, nan) is 1.0, since no comparison with NaN is true.
CalculateSimilarityRounded(a, b, rounding) ==
    IF NoEmbedding(a) \/ NoEmbedding(b) THEN 0
    ELSE IF Len(a.items) # Len(b.items) THEN 0   \* np.dot raises, caught at line 145
    ELSE IF ~a.finite \/ ~b.finite THEN ScoreOne
    ELSE IF Norm(a.items) = 0 \/ Norm(b.items) = 0 THEN 0
    ELSE ClampSimilarity(Cosine(a.items, b.items) + rounding)

\* lines 124-147
CalculateSimilarity(a, b) == CalculateSimilarityRounded(a, b, 0)

\* lines 164-170: the (index, score) pairs at or above the threshold, in
\* candidate order; indices are 0-based as in the code
RECURSIVE Similarities(_, _, _)
Similarities(q, cands, threshold) ==
    IF cands = <<>> THEN <<>>
    ELSE LET rest == Similarities(q, SubSeq(cands, 1, Len(cands) - 1), threshold)
             c == cands[Len(cands)]
         IN  IF c # None /\ Keeps(CalculateSimilarity(q, c), threshold)
             THEN Append(rest, <<Len(cands) - 1, CalculateSimilarity(q, c)>>)
             ELSE rest

\* line 173: list.sort(key = score, reverse = True) is stable: pairs with equal
\* scores keep their order. Insertion of the last pair into the sorted rest.
RECURSIVE SortByScoreDesc(_)
SortByScoreDesc(pairs) ==
    IF pairs = <<>> THEN <<>>
    ELSE LET rest == SortByScoreDesc(SubSeq(pairs, 1, Len(pairs) - 1))
             x == pairs[Len(pairs)]
             ahead == {i \in 1..Len(rest) : rest[i][2] >= x[2]}
             n == IF ahead = {} THEN 0 ELSE SetMax(ahead)
         IN  SubSeq(rest, 1, n) \o <<x>> \o SubSeq(rest, n + 1, Len(rest))

\* lines 163-180
FindMostSimilarResult(q, cands, threshold) ==
    SortByScoreDesc(Similarities(q, cands, threshold))

\* EmbeddingService.find_most_similar over the candidate list
FindMostSimilar(q, threshold) ==
    /\ last_op' = [op |-> "find_most_similar", query |-> q, threshold |-> threshold,
                   ret |-> FindMostSimilarResult(q, candidates, threshold)]
    /\ UNCHANGED <<collection, flushed, next_id, candidates>>
    /\ UNCHANGED exceptStore

(***************************************************************************)
(* Inputs and specifications of the store.                                 *)
(***************************************************************************)
\* settings.SIMILARITY_THRESHOLD (0.8) and settings.MAX_SIMILAR_CHUNKS
SimilarityThreshold == 80
MaxSimilarChunks == 5

Thresholds == {0, 50, SimilarityThreshold, ScoreOne}
Limits == {1, 2, MaxSimilarChunks}

\* What a chunk's embedding can be when it is handed over: nothing, or a vector.
OptionalEmbeddings == {None} \cup Embeddings
EmbeddingLists(n) == UNION {[1..m -> OptionalEmbeddings] : m \in 0..n}

\* The scenario batch: 5 chunks of which 2 have no embedding.
ScenarioBatch == <<List(Vec(1, 0)), None, List(Vec(0, 1)), None, List(Vec(3, 4))>>

StoreIdle ==
    /\ collection = <<>>
    /\ flushed = 0
    /\ next_id = 1
    /\ candidates = <<>>
    /\ last_op = NoOp

StoreSpecInit == StoreIdle /\ ChunkIdle /\ LLMIdle /\ QueryIdle /\ BatchIdle /\ BuildIdle /\ ConnIdle

StoreNext ==
    \E embeddings \in EmbeddingLists(MaxBatch) \cup {ScenarioBatch},
       insert_up \in BOOLEAN, flush_up \in BOOLEAN :
        InsertChunks(embeddings, insert_up, flush_up)

StoreSpec == StoreSpecInit /\ [][StoreNext]_vars

\* The index after one insert_chunks of a list of chunks, and that list's
\* embeddings as a candidate list.
SearchInit ==
    \E embeddings \in EmbeddingLists(MaxStored) :
        /\ collection = WithEmbedding(ChunksOf(embeddings, 1))
        /\ flushed = Len(collection)
        /\ next_id = Len(embeddings) + 1
        /\ candidates = embeddings
        /\ last_op = NoOp

SearchSpecInit == SearchInit /\ ChunkIdle /\ LLMIdle /\ QueryIdle /\ BatchIdle /\ BuildIdle /\ ConnIdle

\* One call is made on the index and the candidate list drawn.
SearchNext ==
    \/ /\ last_op = NoOp
       /\ \E q \in Embeddings, k \in Limits, threshold \in Thresholds, search_up \in BOOLEAN :
             SearchSimilarChunks(q, k, threshold, search_up)
    \/ /\ last_op = NoOp
       /\ \E q \in Embeddings, threshold \in Thresholds : FindMostSimilar(q, threshold)

SearchSpec == SearchSpecInit /\ [][SearchNext]_vars

(***************************************************************************)
(* The build phase and the query phase around the store.                   *)
(***************************************************************************)
\* EmbeddingService.validate_embedding with model dimension Dim
ValidateEmbedding(e) ==
    IF NoEmbedding(e) THEN FALSE
    ELSE IF ~e.finite THEN FALSE
    ELSE Len(e.items) = Dim

\* What model.encode can give for one text besides a vector of the index's
\* dimension: a vector of another dimension (the model and the collection are
\* configured separately) and a vector with a NaN component.
ShortVector == [tag |-> "list", items |-> <<1>>, finite |-> TRUE]
NaNVector == [tag |-> "list", items |-> Vec(1, 0), finite |-> FALSE]
ModelOutputs == {None, List(Vec(1, 0)), List(Vec(0, 1)), ShortVector, NaNVector}
ModelOutputLists(n) == UNION {[1..m -> ModelOutputs] : m \in 1..n}

\* line 90: [chunk for chunk in chunks if chunk.embedding is not None]
IsNotNone(cs) == SelectSeq(cs, LAMBDA c : c.embedding # None)

\* FileProcessorService.process_knowledge_base, lines 81-99: one file whose
\* chunks get `embeddings` from generate_embeddings_batch.
ProcessKnowledgeFile(embeddings, insert_up, flush_up) ==
    /\ next_id + Len(embeddings) <= MaxStored + 1
    /\ LET cs == ChunksOf(embeddings, next_id)
           valid_chunks == IsNotNone(cs)
           r == InsertChunksResult(collection, flushed, valid_chunks, insert_up, flush_up)
       IN  /\ collection' = r.collection
           /\ flushed' = r.flushed
           /\ last_op' = [op |-> "process_knowledge_file", chunks |-> cs,
                          handed |-> r.handed, inserted |-> r.ret]
    /\ next_id' = next_id + Len(embeddings)
    /\ UNCHANGED candidates
    /\ UNCHANGED exceptStore

\* AORApplication._process_call_for_tenders, lines 194-220: one question whose
\* embedding is `embedding`, up to the search for similar chunks.
SearchForQuestion(embedding, search_up) ==
    /\ IF NoEmbedding(embedding)
       THEN last_op' = [op |-> "search_for_question", embedding |-> embedding,
                        searched |-> FALSE, ret |-> <<>>]
       ELSE \E seen \in Visible(collection, flushed) :
            \E results \in SearchSimilarChunksResults(EntitiesOf(seen), embedding,
                                                      MaxSimilarChunks, SimilarityThreshold,
                                                      search_up) :
              last_op' = [op |-> "search_for_question", embedding |-> embedding,
                          searched |-> TRUE, ret |-> results]
    /\ UNCHANGED <<collection, flushed, next_id, candidates>>
    /\ UNCHANGED exceptStore

PipelineSpecInit == StoreIdle /\ ChunkIdle /\ LLMIdle /\ QueryIdle /\ BatchIdle /\ BuildIdle /\ ConnIdle

PipelineNext ==
    \/ \E embeddings \in ModelOutputLists(MaxBatch), insert_up \in BOOLEAN, flush_up \in BOOLEAN :
          ProcessKnowledgeFile(embeddings, insert_up, flush_up)
    \/ \E embedding \in ModelOutputs, search_up \in BOOLEAN :
          SearchForQuestion(embedding, search_up)

PipelineSpec == PipelineSpecInit /\ [][PipelineNext]_vars


(***************************************************************************)
(* EmbeddingService.generate_embeddings_batch                              *)
(***************************************************************************)
\* The texts handed to the embedding service: empty, blank, and three with
\* different contents once trimmed (" a" and "a" trim to the same text).
Texts == {<<>>, <<" ">>, <<"a">>, <<" ", "a">>, <<"\n", "a", "a">>, <<"a", " ", "a">>}
TextLists(n) == UNION {[1..m -> Texts] : m \in 0..n}

\* model.encode on one cleaned text: the vector of that text
Encode(cleaned) ==
    IF cleaned = <<"a">> THEN Vec(1, 0)
    ELSE IF cleaned = <<"a", "a">> THEN Vec(0, 1)
    ELSE Vec(3, 4)

\* line 89: `text and text.strip()`
NonBlank(t) == t # <<>> /\ Strip(t) # <<>>

\* lines 89-96: the indices (1-based here) of the non-blank texts, in order
RECURSIVE ValidIndices(_)
ValidIndices(texts) ==
    IF texts = <<>> THEN <<>>
    ELSE LET rest == ValidIndices(SubSeq(texts, 1, Len(texts) - 1))
         IN  IF NonBlank(texts[Len(texts)]) THEN Append(rest, Len(texts)) ELSE rest

\* A scatter that packs the vectors into the first slots.
ScatterSlot_Packed(indices, j) == j

\* lines 103-104: the j-th vector goes to the slot of the j-th valid text
ScatterSlot(indices, j) == indices[j]

\* lines 83-111: generate_embeddings_batch(texts), where `failing` holds the
\* positions of the texts on which the model fails. The model is called once
\* on all the cleaned texts (line 99): it raises when it fails on any of them.
GenerateEmbeddingsBatchResult(texts, failing) ==
    LET indices == ValidIndices(texts)
        cleaned == [j \in 1..Len(indices) |-> Strip(texts[indices[j]])]
        raises == \E j \in 1..Len(indices) : indices[j] \in failing
        embeddings == [j \in 1..Len(indices) |-> Encode(cleaned[j])]
    IN  IF texts = <<>> THEN <<>>
        ELSE IF indices = <<>> THEN [i \in 1..Len(texts) |-> None]
        ELSE IF raises THEN [i \in 1..Len(texts) |-> None]
        ELSE [i \in 1..Len(texts) |->
                IF \E j \in 1..Len(indices) : ScatterSlot(indices, j) = i
                THEN List(embeddings[CHOOSE j \in 1..Len(indices) : ScatterSlot(indices, j) = i])
                ELSE None]

\* EmbeddingService.generate_embeddings_batch
GenerateEmbeddingsBatch(texts, failing) ==
    /\ last_op' = [op |-> "generate_embeddings_batch", texts |-> texts,
                   failing |-> failing, ret |-> GenerateEmbeddingsBatchResult(texts, failing)]
    /\ UNCHANGED <<collection, flushed, next_id, candidates>>
    /\ UNCHANGED exceptStore

EmbedSpecInit == StoreIdle /\ ChunkIdle /\ LLMIdle /\ QueryIdle /\ BatchIdle /\ BuildIdle /\ ConnIdle

\* One call is made.
EmbedNext ==
    /\ last_op = NoOp
    /\ \E texts \in TextLists(MaxBatch) : \E failing \in SUBSET (1..Len(texts)) :
          GenerateEmbeddingsBatch(texts, failing)

EmbedSpec == EmbedSpecInit /\ [][EmbedNext]_vars


(***************************************************************************)
(* AORApplication._process_call_for_tenders: the query phase.              *)
(***************************************************************************)
\* A Python str and a Python float held in an optional field
Str(s) == [tag |-> "str", value |-> s]
Float(v) == [tag |-> "float", value |-> v]

\* The texts of extracted questions: not blank, with different embeddings
QuestionTexts == {<<"a">>, <<"\n", "a", "a">>, <<"a", " ", "a">>}
QuestionLists(n) == UNION {[1..m -> QuestionTexts] : m \in 0..n}

\* data_models.py, QuestionReponse: a freshly extracted question
QuestionReponse(question) ==
    [question |-> question, question_embedding |-> None, reponse |-> None,
     confiance |-> None, sources |-> <<>>, chunks_utilises |-> <<>>]

\* The indexes the query phase runs against: empty, one chunk, two chunks
QueryIndexes ==
    {WithEmbedding(ChunksOf(embeddings, 1)) :
        embeddings \in {<<>>, <<List(Vec(1, 0))>>, <<List(Vec(1, 0)), List(Vec(0, 1))>>}}

\* What generate_response can return: None, or the response built from a JSON
\* object that has the required keys and a confidence in range.
GenerateResponseResults ==
    {None} \cup
    {LLMResponse(j) : j \in {o \in JsonObjects :
        /\ ValidateJsonStructure(o, RequiredKeys)
        /\ ~FloatRaises(o["confiance"])
        /\ ~LLMResponseRaises(o["confiance"].value)}}

\* lines 186-204: extract the questions, embed them in one batch and attach
\* the embeddings. No question extracted: return None (lines 187-189).
ProcessCallForTendersStart(texts, failing) ==
    /\ qpc = "idle"
    /\ LET question_embeddings == GenerateEmbeddingsBatchResult(texts, failing)
       IN  questions' = [i \in 1..Len(texts) |->
                            IF NoEmbedding(question_embeddings[i])
                            THEN QuestionReponse(texts[i])
                            ELSE [QuestionReponse(texts[i]) EXCEPT
                                     !.question_embedding = question_embeddings[i]]]
    /\ qi' = 0
    /\ questions_with_responses' = 0
    /\ errors' = <<>>
    /\ visits' = <<>>
    /\ query_result' = None
    /\ qpc' = IF texts = <<>> THEN "done" ELSE "loop"
    /\ UNCHANGED storeVars
    /\ UNCHANGED exceptQuery

\* A loop body that puts every question on the error list.
QuestionAfter_AlwaysError(question, results, llm_response, raised) ==
    [question |-> question, answered |-> FALSE, error |-> TRUE]

\* lines 206-249: the loop body for one question. `results` is what
\* search_similar_chunks returns, `llm_response` what generate_response
\* returns, `raised` where an exception comes out of the body: nowhere
\* ("no"), at the search ("search") or at the answer ("answer").
\* Gives the question afterwards, whether it was answered and whether the
\* handler of lines 246-249 ran.
QuestionAfter(question, results, llm_response, raised) ==
    LET with_chunks == [question EXCEPT
                           !.chunks_utilises = [r \in 1..Len(results) |-> results[r].chunk]]
    IN  IF NoEmbedding(question.question_embedding)
        THEN [question |-> question, answered |-> FALSE, error |-> FALSE]
        ELSE IF raised = "search"
        THEN [question |-> question, answered |-> FALSE, error |-> TRUE]
        ELSE IF results = <<>>
        THEN [question |-> question, answered |-> FALSE, error |-> FALSE]
        ELSE IF raised = "answer"
        THEN [question |-> with_chunks, answered |-> FALSE, error |-> TRUE]
        ELSE IF llm_response # None
        THEN [question |-> [with_chunks EXCEPT
                               !.reponse = Str(llm_response.reponse),
                               !.confiance = Float(llm_response.confiance),
                               !.sources = llm_response.sources],
              answered |-> TRUE, error |-> FALSE]
        ELSE [question |-> with_chunks, answered |-> FALSE, error |-> FALSE]

\* A counter that counts every question that reaches the answerer.
CountAnswered_Every(count, answered) == count + 1

\* line 243: questions_with_responses += 1, inside `if llm_response:`
CountAnswered(count, answered) == IF answered THEN count + 1 ELSE count

\* A loop that stops at the first question whose processing raises.
NextPosition_StopOnError(i, n, error) == IF i + 1 < n /\ ~error THEN "loop" ELSE "save"

\* lines 207, 246-249: `continue` and the handler both go on to the next
\* question; after the last one the loop is left.
NextPosition(i, n, error) == IF i + 1 < n THEN "loop" ELSE "save"

\* for i, question in enumerate(questions): one turn of the loop
ProcessQuestion(search_up, llm_response, raised) ==
    /\ qpc = "loop"
    /\ LET question == questions[qi + 1]
           found == IF NoEmbedding(question.question_embedding) THEN {<<>>}
                    ELSE UNION {SearchSimilarChunksResults(EntitiesOf(seen),
                                    question.question_embedding, MaxSimilarChunks,
                                    SimilarityThreshold, search_up) :
                                seen \in Visible(collection, flushed)}
       IN  \E results \in found :
             LET after == QuestionAfter(question, results, llm_response, raised)
             IN  /\ questions' = [questions EXCEPT ![qi + 1] = after.question]
                 /\ questions_with_responses' =
                        CountAnswered(questions_with_responses, after.answered)
                 /\ errors' = IF after.error THEN Append(errors, qi + 1) ELSE errors
                 /\ qpc' = NextPosition(qi, Len(questions), after.error)
    /\ visits' = Append(visits, qi)
    /\ qi' = qi + 1
    /\ UNCHANGED query_result
    /\ UNCHANGED storeVars
    /\ UNCHANGED exceptQuery

\* lines 251-272: save the answers and return the summary, or None when the
\* answers cannot be saved.
SaveAndReturn(save_ok) ==
    /\ qpc = "save"
    /\ query_result' =
          IF save_ok
          THEN [tag |-> "ProcessingResult", questions_traitees |-> Len(questions),
                questions_avec_reponse |-> questions_with_responses, erreurs |-> errors]
          ELSE None
    /\ qpc' = "done"
    /\ UNCHANGED <<questions, qi, questions_with_responses, errors, visits>>
    /\ UNCHANGED storeVars
    /\ UNCHANGED exceptQuery

\* The application with an index built and no call for tenders handled yet
QueryInit ==
    /\ collection \in QueryIndexes
    /\ flushed = Len(collection)
    /\ next_id = Len(collection) + 1
    /\ candidates = <<>>
    /\ last_op = NoOp

QuerySpecInit == QueryInit /\ QueryIdle /\ ChunkIdle /\ LLMIdle /\ BatchIdle /\ BuildIdle /\ ConnIdle

QueryNext ==
    \/ \E texts \in QuestionLists(MaxQuestions), failing \in {{}, {1}} :
          ProcessCallForTendersStart(texts, failing)
    \/ \E search_up \in BOOLEAN, llm_response \in GenerateResponseResults,
          raised \in {"no", "search", "answer"} :
          ProcessQuestion(search_up, llm_response, raised)
    \/ \E save_ok \in BOOLEAN : SaveAndReturn(save_ok)

QuerySpec == QuerySpecInit /\ [][QueryNext]_vars

\* The loop and the save that follows it are not left unfinished.
QueryFairSpec == QuerySpec /\ WF_vars(QueryNext)


(***************************************************************************)
(* LLMService.generate_responses_batch                                     *)
(***************************************************************************)
\* time.sleep(0.5) between two calls, in milliseconds
PauseMs == 500

\* The (question, context_chunks) pairs handed to the batch
Pairs == {<<q, ctx>> : q \in {<<"a">>, <<"a", "a">>}, ctx \in {<<>>, <<"c">>}}
PairLists(n) == UNION {[1..m -> Pairs] : m \in 0..n}

\* What generate_response can return when called with `retries`: with no
\* attempt allowed it returns None.
ResponsesWith(retries) == IF retries = 0 THEN {None} ELSE GenerateResponseResults

\* A batch that gives up at the first item without an answer.
BatchPosition_StopOnNone(i, n, response) ==
    IF i + 1 < n /\ response # None THEN "item" ELSE "return"

\* line 193: the for loop goes on to the next pair whatever the response
BatchPosition(i, n, response) == IF i + 1 < n THEN "item" ELSE "return"

\* lines 191-193: generate_responses_batch is called
GenerateResponsesBatchCall(pairs, retries) ==
    /\ bpc = "idle"
    /\ questions_with_context' = pairs
    /\ batch_retries' = retries
    /\ bi' = 0
    /\ batch_results' = <<>>
    /\ events' = <<>>
    /\ bpc' = IF pairs = <<>> THEN "return" ELSE "item"
    /\ UNCHANGED exceptBatch

\* lines 193-201: one turn of the loop, in which generate_response returns
\* `response`
GenerateResponsesBatchItem(response) ==
    /\ bpc = "item"
    /\ batch_results' = Append(batch_results, response)
    /\ events' = events
                 \o <<[kind |-> "call", pair |-> questions_with_context[bi + 1],
                       max_retries |-> batch_retries, response |-> response]>>
                 \o (IF bi < Len(questions_with_context) - 1
                     THEN <<[kind |-> "sleep", ms |-> PauseMs]>>
                     ELSE <<>>)
    /\ bpc' = BatchPosition(bi, Len(questions_with_context), response)
    /\ bi' = bi + 1
    /\ UNCHANGED <<questions_with_context, batch_retries>>
    /\ UNCHANGED exceptBatch

BatchSpecInit == BatchIdle /\ QueryIdle /\ StoreIdle /\ ChunkIdle /\ LLMIdle /\ BuildIdle /\ ConnIdle

BatchNext ==
    \/ \E pairs \in PairLists(MaxQuestions), retries \in 0..MaxRetries :
          GenerateResponsesBatchCall(pairs, retries)
    \/ \E response \in ResponsesWith(batch_retries) : GenerateResponsesBatchItem(response)

BatchSpec == BatchSpecInit /\ [][BatchNext]_vars


(***************************************************************************)
(* The index under insertion, search and deletion by source.               *)
(***************************************************************************)
\* A file name is a sequence of pieces of text: letters, or a double quote,
\* or the text ` or source_file != `.
Quote == "\""
OrNotEqual == " or source_file != "

\* The source files of stored chunks: two plain names and one with a quote
SourceFiles == {<<"a">>, <<"b">>, <<"a", Quote, "b">>}

\* The names handed to delete_chunks_by_source
DeleteArgs == SourceFiles \cup {<<"c">>, <<"a", Quote, OrNotEqual, Quote>>}

\* Chunks whose ids have no random suffix: the same on every run
ChunksFrom_NoSuffix(source_file, embeddings, first_id) ==
    [i \in 1..Len(embeddings) |->
        [id |-> i, source_file |-> source_file, chunk_index |-> i - 1,
         embedding |-> embeddings[i]]]

\* The chunks of one source file built from a list of optional embeddings
ChunksFrom(source_file, embeddings, first_id) ==
    [i \in 1..Len(embeddings) |->
        [id |-> first_id + i - 1, source_file |-> source_file, chunk_index |-> i - 1,
         embedding |-> embeddings[i]]]

\* VectorStoreService.insert_chunks on the chunks of one source file
InsertSourceChunks(source_file, embeddings, insert_up, flush_up) ==
    /\ next_id + Len(embeddings) <= MaxStored
    /\ LET cs == ChunksFrom(source_file, embeddings, next_id)
           r == InsertChunksResult(collection, flushed, cs, insert_up, flush_up)
       IN  /\ collection' = r.collection
           /\ flushed' = r.flushed
           /\ last_op' = [op |-> "insert_chunks", chunks |-> cs,
                          up |-> insert_up /\ flush_up, ret |-> r.ret]
    /\ next_id' = next_id + Len(embeddings)
    /\ UNCHANGED candidates
    /\ UNCHANGED exceptStore

\* line 278: f'source_file == "{source_file}"'
DeleteExpr(source_file) == <<"source_file == ", Quote>> \o source_file \o <<Quote>>

\* The first position of `piece` in a sequence of pieces, or 0
IndexOf(pieces, piece) ==
    LET found == {i \in 1..Len(pieces) : pieces[i] = piece}
    IN  IF found = {} THEN 0 ELSE CHOOSE i \in found : \A j \in found : i <= j

\* How the backend reads the expression: a string literal runs from a quote
\* to the next quote; `field == "x"` may be followed by ` or field != "y"` and
\* by nothing else. Gives the condition read, or a syntax error.
ParseExpr(expr) ==
    LET after_open == SubSeq(expr, 3, Len(expr))
        close == IndexOf(after_open, Quote)
        literal == SubSeq(after_open, 1, close - 1)
        rest == SubSeq(after_open, close + 1, Len(after_open))
        second == SubSeq(rest, 3, Len(rest) - 1)
    IN  IF close = 0 THEN [ok |-> FALSE]
        ELSE IF rest = <<>> THEN [ok |-> TRUE, equal |-> literal, or_not_equal |-> FALSE]
        ELSE IF /\ Len(rest) >= 3
                /\ rest[1] = OrNotEqual
                /\ rest[2] = Quote
                /\ rest[Len(rest)] = Quote
                /\ IndexOf(second, Quote) = 0
        THEN [ok |-> TRUE, equal |-> literal, or_not_equal |-> TRUE, other |-> second]
        ELSE [ok |-> FALSE]

\* Whether an entity satisfies the condition read
Satisfies(entity, condition) ==
    \/ entity.source_file = condition.equal
    \/ condition.or_not_equal /\ entity.source_file # condition.other

\* lines 276-286: delete_chunks_by_source(source_file) on `coll`, where
\* delete_up and flush_up say whether the backend's delete and flush go through
DeleteChunksBySourceResult(coll, nflushed, source_file, delete_up, flush_up) ==
    LET condition == ParseExpr(DeleteExpr(source_file))
        kept == SelectSeq([i \in 1..Len(coll) |-> [entity |-> coll[i], at |-> i]],
                          LAMBDA x : ~Satisfies(x.entity, condition))
        kept_flushed == Len(SelectSeq(kept, LAMBDA x : x.at <= nflushed))
    IN  IF ~delete_up \/ ~condition.ok
        THEN [collection |-> coll, flushed |-> nflushed, ret |-> FALSE]
        ELSE IF ~flush_up
        THEN [collection |-> EntitiesOf(kept), flushed |-> kept_flushed, ret |-> FALSE]
        ELSE [collection |-> EntitiesOf(kept), flushed |-> Len(kept), ret |-> TRUE]

\* VectorStoreService.delete_chunks_by_source
DeleteChunksBySource(source_file, delete_up, flush_up) ==
    /\ LET r == DeleteChunksBySourceResult(collection, flushed, source_file, delete_up,
                                           flush_up)
       IN  /\ collection' = r.collection
           /\ flushed' = r.flushed
           /\ last_op' = [op |-> "delete_chunks_by_source", source_file |-> source_file,
                          up |-> delete_up /\ flush_up, ret |-> r.ret]
    /\ UNCHANGED <<next_id, candidates>>
    /\ UNCHANGED exceptStore

IndexSpecInit == StoreIdle /\ ChunkIdle /\ LLMIdle /\ QueryIdle /\ BatchIdle /\ BuildIdle /\ ConnIdle

IndexNext ==
    \/ \E source_file \in SourceFiles,
          embeddings \in UNION {[1..m -> {None, List(Vec(1, 0))}] : m \in 1..MaxBatch},
          insert_up \in BOOLEAN, flush_up \in BOOLEAN :
          InsertSourceChunks(source_file, embeddings, insert_up, flush_up)
    \/ \E search_up \in BOOLEAN :
          SearchSimilarChunks(List(Vec(1, 0)), MaxSimilarChunks, SimilarityThreshold, search_up)
    \/ \E source_file \in DeleteArgs, delete_up \in BOOLEAN, flush_up \in BOOLEAN :
          DeleteChunksBySource(source_file, delete_up, flush_up)

IndexSpec == IndexSpecInit /\ [][IndexNext]_vars


(***************************************************************************)
(* FileProcessorService.process_knowledge_base: the build phase.           *)
(***************************************************************************)
\* The path of the i-th file that get_knowledge_base_files lists
FileName(i) == <<"kb", i>>

\* The knowledge bases: up to MaxFiles files of 0 to MaxBatch chunks each. A
\* file of 0 chunks stands for one with no text extracted (line 69) or with a
\* text _create_chunks makes nothing of (line 101).
KnowledgeBases ==
    {[i \in 1..m |-> [source_file |-> FileName(i), nchunks |-> n[i]]] :
        m \in 0..MaxFiles, n \in [1..MaxFiles -> 0..MaxBatch]}

RECURSIVE CorpusChunks(_)
CorpusChunks(files) ==
    IF files = <<>> THEN 0
    ELSE CorpusChunks(SubSeq(files, 1, Len(files) - 1)) + files[Len(files)].nchunks

\* lines 113-119: the IndexingResult (temps_indexation left out)
IndexingResult(fichiers_traites, chunks_crees, vecteurs_stockes, erreurs) ==
    [fichiers_traites |-> fichiers_traites, chunks_crees |-> chunks_crees,
     vecteurs_stockes |-> vecteurs_stockes, erreurs |-> erreurs]

\* lines 40-62: entry of process_knowledge_base, up to the loop over the files
ProcessKnowledgeBaseStart ==
    /\ kpc = "idle"
    /\ Len(runs_log) < MaxRuns
    /\ next_id + CorpusChunks(kb_files) <= MaxBuilt + 1
    /\ IF kb_files = <<>>
       THEN /\ runs_log' = Append(runs_log,
                                  [result |-> IndexingResult(0, 0, 0, <<"Aucun fichier trouvé">>),
                                   stored |-> 0])
            /\ UNCHANGED <<fi, kpc>>
       ELSE /\ fi' = 1
            /\ kpc' = "loop"
            /\ UNCHANGED runs_log
    /\ files_processed' = 0
    /\ total_chunks' = 0
    /\ total_vectors' = 0
    /\ stored' = 0
    /\ UNCHANGED kb_files
    /\ UNCHANGED exceptBuild


\* lines 83-87: the contents of a file's chunks go through
\* generate_embeddings_batch; the chunks' contents are never blank (lines
\* 213, 248), `embedded` says whether the model call goes through.
EmbeddingsOfFile(nchunks, embedded) ==
    GenerateEmbeddingsBatchResult([i \in 1..nchunks |-> <<"a">>],
                                  IF embedded THEN {} ELSE {1})

\* lines 62-107: the loop body for the file at position fi
ProcessKnowledgeBaseFile(embedded, insert_up, flush_up) ==
    /\ kpc = "loop"
    /\ fi <= Len(kb_files)
    /\ LET file == kb_files[fi]
           cs == ChunksFrom(file.source_file, EmbeddingsOfFile(file.nchunks, embedded),
                            next_id)
           valid_chunks == IsNotNone(cs)
           r == InsertChunksResult(collection, flushed, valid_chunks, insert_up, flush_up)
       IN  IF file.nchunks = 0
           THEN UNCHANGED <<collection, flushed, next_id, files_processed, total_chunks,
                            total_vectors, stored>>
           ELSE /\ collection' = r.collection
                /\ flushed' = r.flushed
                /\ next_id' = next_id + file.nchunks
                /\ total_vectors' = total_vectors + AsInt(r.ret)
                /\ total_chunks' = total_chunks + Len(cs)
                /\ files_processed' = files_processed + 1
                /\ stored' = stored + Len(r.collection) - Len(collection)
    /\ fi' = fi + 1
    /\ UNCHANGED <<kb_files, runs_log, kpc>>
    /\ UNCHANGED <<candidates, last_op>>
    /\ UNCHANGED exceptBuildAndStore

\* lines 109-119: after the last file
ProcessKnowledgeBaseReturn ==
    /\ kpc = "loop"
    /\ fi > Len(kb_files)
    /\ runs_log' = Append(runs_log,
                          [result |-> IndexingResult(files_processed, total_chunks,
                                                     total_vectors, <<>>),
                           stored |-> stored])
    /\ kpc' = "idle"
    /\ fi' = 0
    /\ files_processed' = 0
    /\ total_chunks' = 0
    /\ total_vectors' = 0
    /\ stored' = 0
    /\ UNCHANGED kb_files
    /\ UNCHANGED exceptBuild

BuildInit ==
    /\ kb_files \in KnowledgeBases
    /\ fi = 0
    /\ files_processed = 0
    /\ total_chunks = 0
    /\ total_vectors = 0
    /\ stored = 0
    /\ runs_log = <<>>
    /\ kpc = "idle"

BuildSpecInit == BuildInit /\ StoreIdle /\ ChunkIdle /\ LLMIdle /\ QueryIdle /\ BatchIdle /\ ConnIdle

BuildNext ==
    \/ ProcessKnowledgeBaseStart
    \/ \E embedded \in BOOLEAN, insert_up \in BOOLEAN, flush_up \in BOOLEAN :
          ProcessKnowledgeBaseFile(embedded, insert_up, flush_up)
    \/ ProcessKnowledgeBaseReturn

BuildSpec == BuildSpecInit /\ [][BuildNext]_vars


(***************************************************************************)
(* EmbeddingService.calculate_similarity on its own.                       *)
(***************************************************************************)
\* The arguments: nothing, the empty list, the zero vector, vectors pointing
\* the same way, opposite ways and at right angles, a vector of another
\* dimension and one with a NaN component.
SimilarityArgs ==
    {None, List(<<>>), List(Vec(0, 0)), List(Vec(1, 0)), List(Vec(0 - 1, 0)), List(Vec(0, 1)),
     List(Vec(3, 4)), List(Vec(0 - 3, 4)), ShortVector, NaNVector}

\* The error of the floating-point quotient: a hundredth either way, or none
Roundings == {0 - 1, 0, 1}

\* EmbeddingService.calculate_similarity
CalculateSimilarityCall(a, b, rounding) ==
    /\ last_op' = [op |-> "calculate_similarity", embedding1 |-> a, embedding2 |-> b,
                   rounding |-> rounding, ret |-> CalculateSimilarityRounded(a, b, rounding)]
    /\ UNCHANGED <<collection, flushed, next_id, candidates>>
    /\ UNCHANGED exceptStore

SimilaritySpecInit == StoreIdle /\ ChunkIdle /\ LLMIdle /\ QueryIdle /\ BatchIdle /\ BuildIdle /\ ConnIdle

\* One call is made.
SimilarityNext ==
    /\ last_op = NoOp
    /\ \E a \in SimilarityArgs, b \in SimilarityArgs, rounding \in Roundings :
          CalculateSimilarityCall(a, b, rounding)

SimilaritySpec == SimilaritySpecInit /\ [][SimilarityNext]_vars


(***************************************************************************)
(* ExcelService.save_responses_to_excel                                    *)
(***************************************************************************)
\* A column name is the sequence of the pieces it is formatted from.
\* line 230: f"{column_name}_reponse"
ResponseColumn(column_name) == column_name \o <<"_reponse">>
\* line 240: f"{column_name}_Confiance"
ConfidenceColumn(column_name) == column_name \o <<"_Confiance">>
\* line 246: f"{column_name}_Sources"
SourcesColumn(column_name) == column_name \o <<"_Sources">>

\* The sheets of the original file: their names and columns
Sheets ==
    {<<[sheet_name |-> "Sheet1", columns |-> <<<<"Question">>>>]>>,
     <<[sheet_name |-> "Sheet1", columns |-> <<<<"Question">>, <<"Point">>>>],
       [sheet_name |-> "Sheet2", columns |-> <<<<"Question">>>>]>>}

\* The question records handed over: where each was extracted from
\* (metadata) and what the query phase has set on it
SavedQuestions ==
    {[sheet_name |-> s, column_name |-> c, row_index |-> 0, reponse |-> r,
      confiance |-> f, sources |-> src] :
        s \in {"Sheet1", "Sheet2"}, c \in {<<"Question">>, <<"Point">>},
        r \in {None, Str(<<"r">>)}, f \in {None, Float(7)}, src \in {<<>>, <<"s1">>}}
SavedQuestionLists(n) == UNION {[1..m -> SavedQuestions] : m \in 0..n}

\* `column not in df.columns`: the columns with `column` appended if missing
WithColumn(columns, column) ==
    IF \E i \in 1..Len(columns) : columns[i] = column THEN columns
    ELSE Append(columns, column)

\* lines 224-249: what one question of the sheet adds to the columns
ColumnsAfterQuestion(columns, question) ==
    LET has_column == \E i \in 1..Len(columns) : columns[i] = question.column_name
        with_response == WithColumn(columns, ResponseColumn(question.column_name))
        with_confidence ==
            IF question.confiance # None
            THEN WithColumn(with_response, ConfidenceColumn(question.column_name))
            ELSE with_response
        with_sources ==
            IF question.sources # <<>>
            THEN WithColumn(with_confidence, SourcesColumn(question.column_name))
            ELSE with_confidence
    IN  IF ~has_column THEN columns
        ELSE IF question.reponse = None THEN with_response
        ELSE with_sources

\* lines 218-251: _add_responses_to_dataframe, the columns of the result
RECURSIVE AddResponsesToDataframe(_, _, _)
AddResponsesToDataframe(columns, qs, sheet_name) ==
    IF qs = <<>> THEN columns
    ELSE LET before == AddResponsesToDataframe(columns, SubSeq(qs, 1, Len(qs) - 1),
                                               sheet_name)
             question == qs[Len(qs)]
         IN  IF question.sheet_name = sheet_name
             THEN ColumnsAfterQuestion(before, question)
             ELSE before

\* lines 165-202: the sheets of the output file, or None when writing fails
SaveResponsesToExcelResult(sheets, qs, write_ok) ==
    IF ~write_ok THEN None
    ELSE [tag |-> "file",
          sheets |-> [s \in 1..Len(sheets) |->
                        [sheet_name |-> sheets[s].sheet_name,
                         columns |-> AddResponsesToDataframe(sheets[s].columns, qs,
                                                             sheets[s].sheet_name)]]]

\* ExcelService.save_responses_to_excel
SaveResponsesToExcel(sheets, qs, write_ok) ==
    /\ last_op' = [op |-> "save_responses_to_excel", original |-> sheets, questions |-> qs,
                   ret |-> SaveResponsesToExcelResult(sheets, qs, write_ok)]
    /\ UNCHANGED <<collection, flushed, next_id, candidates>>
    /\ UNCHANGED exceptStore

ExcelSpecInit == StoreIdle /\ ChunkIdle /\ LLMIdle /\ QueryIdle /\ BatchIdle /\ BuildIdle /\ ConnIdle

\* One call is made.
ExcelNext ==
    /\ last_op = NoOp
    /\ \E sheets \in Sheets, qs \in SavedQuestionLists(MaxQuestions), write_ok \in BOOLEAN :
          SaveResponsesToExcel(sheets, qs, write_ok)

ExcelSpec == ExcelSpecInit /\ [][ExcelNext]_vars


(***************************************************************************)
(* VectorStoreService instances and the connection they share.             *)
(***************************************************************************)
\* lines 22-60: VectorStoreService(): _connect establishes the connection
\* "default" (connecting again is harmless); when it fails the instance is
\* constructed all the same (the exception is caught at line 58).
Construct(i, connect_ok) ==
    /\ i \notin instances
    /\ instances' = instances \cup {i}
    /\ session' = IF connect_ok THEN TRUE ELSE session
    /\ UNCHANGED storeVars
    /\ UNCHANGED exceptConnAndStore

\* lines 106-159 and 161-222: insert_chunks or search_similar_chunks on a live
\* instance: Collection(...) needs the connection "default"; without it the
\* call raises, which insert_chunks reports as False and
\* search_similar_chunks as [].
UseInstance(i, op) ==
    /\ i \in instances
    /\ last_op' = [op |-> op, instance |-> i, served |-> session]
    /\ UNCHANGED <<instances, session>>
    /\ UNCHANGED <<collection, flushed, next_id, candidates>>
    /\ UNCHANGED exceptConnAndStore

\* lines 288-309: test_connection connects again when the connection is gone
TestConnection(i, connect_ok) ==
    /\ i \in instances
    /\ session' = IF session THEN TRUE ELSE connect_ok
    /\ last_op' = [op |-> "test_connection", instance |-> i, served |-> session']
    /\ UNCHANGED instances
    /\ UNCHANGED <<collection, flushed, next_id, candidates>>
    /\ UNCHANGED exceptConnAndStore

\* lines 311-318: __del__ disconnects "default", whoever else uses it
Destroy(i) ==
    /\ i \in instances
    /\ instances' = instances \ {i}
    /\ session' = FALSE
    /\ UNCHANGED storeVars
    /\ UNCHANGED exceptConnAndStore

ConnSpecInit == ConnIdle /\ StoreIdle /\ ChunkIdle /\ LLMIdle /\ QueryIdle /\ BatchIdle /\ BuildIdle

ConnNext ==
    \/ \E i \in 1..MaxInstances, connect_ok \in BOOLEAN : Construct(i, connect_ok)
    \/ \E i \in 1..MaxInstances, op \in {"insert_chunks", "search_similar_chunks"} :
          UseInstance(i, op)
    \/ \E i \in 1..MaxInstances, connect_ok \in BOOLEAN : TestConnection(i, connect_ok)
    \/ \E i \in 1..MaxInstances : Destroy(i)

ConnSpec == ConnSpecInit /\ [][ConnNext]_vars

(***************************************************************************)
(* Specifications of the chunker and of generate_response.                 *)
(***************************************************************************)
ChunkSpecInit == ChunkInit /\ LLMIdle /\ StoreIdle /\ QueryIdle /\ BatchIdle /\ BuildIdle /\ ConnIdle

ChunkSpec == ChunkSpecInit /\ [][ChunkNext]_vars

LLMSpecInit == LLMInit /\ ChunkIdle /\ StoreIdle /\ QueryIdle /\ BatchIdle /\ BuildIdle /\ ConnIdle

LLMSpec == LLMSpecInit /\ [][LLMNext]_vars

(***************************************************************************)
(* Properties of the chunker.                                              *)
(***************************************************************************)
\* The start offsets of the windows examined so far, followed by the start
\* computed for the next window.
WindowStarts ==
    [i \in 1..(Len(windows) + 1) |->
        IF i <= Len(windows) THEN windows[i].start ELSE start]

\* C1: for every text with len(text.strip()) >= chunk_size and every
\* 0 <= chunk_overlap < chunk_size, the start offset of each successive window
\* of _create_chunks is strictly greater than the start offset of the window
\* before it, so the loop makes progress and terminates.
C1_StartStrictlyIncreases ==
    cpc \in {"loop", "return"} =>
        \A i \in 1..Len(windows) : WindowStarts[i + 1] > WindowStarts[i]

SpanPositions(c) ==
    {p \in 0..(Len(text) - 1) :
        SliceIndex(c.start_char, Len(text)) <= p /\ p < SliceIndex(c.end_char, Len(text))}

\* The windows that are not blank after trimming, in order.
RECURSIVE SolidWindows(_)
SolidWindows(ws) ==
    IF ws = <<>> THEN <<>>
    ELSE LET w == ws[Len(ws)]
             rest == SolidWindows(SubSeq(ws, 1, Len(ws) - 1))
         IN  IF Strip(Slice(text, w.start, w.end)) # <<>> THEN Append(rest, w) ELSE rest

C2_ScenarioWitness ==
    /\ cpc = "return"
    /\ text = ScenarioText
    /\ Len(chunks) >= 2

(***************************************************************************)
(* Properties of generate_response.                                        *)
(***************************************************************************)
Failed(entry) == entry.outcome # "ok"

\* C3: generate_response sends at most max_retries requests; when every
\* attempt fails it has made exactly max_retries attempts when it returns, and
\* it returns None.
C3_AtMostMaxRetriesThenNone ==
    /\ requests <= max_retries
    /\ (lpc = "return" /\ \A i \in 1..Len(log) : Failed(log[i])) =>
          /\ requests = max_retries
          /\ Len(log) = max_retries
          /\ llm_result = None

\* C3 witness: an always-failing endpoint with max_retries = 2: a timeout, then
\* a reply without a JSON object, and None is returned after 2 requests.
C3_Witness ==
    /\ lpc = "return"
    /\ max_retries = 2
    /\ requests = 2
    /\ llm_result = None
    /\ log[1].outcome = "timeout"
    /\ log[2].outcome = "continue"

\* The reply carries a JSON object with the required keys.
HasRequiredObject(reply) ==
    /\ reply.kind = "http"
    /\ reply.status = 200
    /\ reply.body = "choices"
    /\ ~Falsy(ExtractJsonFromText(reply.content))
    /\ RequiredKeys \subseteq DOMAIN ExtractJsonFromText(reply.content)

\* C4: generate_response returns the result of the first attempt whose reply
\* passes validation and sends no request after it: a successful attempt is the
\* last one, every attempt before it failed, the number of requests is the
\* number of attempts (k failures, then success: k + 1), and the result holds
\* the answer and confidence of that reply's JSON object.
C4_FirstValidReplyReturned ==
    /\ \A i \in 1..Len(log) :
          ~Failed(log[i]) =>
              /\ i = Len(log)
              /\ lpc = "return"
              /\ requests = i
              /\ llm_result # None
    /\ (lpc = "return" /\ llm_result # None) =>
          /\ log # <<>>
          /\ ~Failed(log[Len(log)])
          /\ HasRequiredObject(last_reply)
          /\ llm_result.reponse = ExtractJsonFromText(last_reply.content)["reponse"]
          /\ llm_result.confiance =
                ExtractJsonFromText(last_reply.content)["confiance"].value

\* C4 witness: with max_retries = 3 the endpoint fails twice, then succeeds, and
\* the result is returned after exactly 3 requests.
C4_Witness ==
    /\ lpc = "return"
    /\ max_retries = 3
    /\ Len(log) = 3
    /\ Failed(log[1])
    /\ Failed(log[2])
    /\ ~Failed(log[3])
    /\ requests = 3
    /\ llm_result # None

\* The reply carries a JSON object with the required keys and a numeric
\* confidence outside [0, 1].
ConfidenceOutOfRange(reply) ==
    /\ HasRequiredObject(reply)
    /\ ExtractJsonFromText(reply.content)["confiance"].type = "number"
    /\ \/ ExtractJsonFromText(reply.content)["confiance"].value < 0
       \/ ExtractJsonFromText(reply.content)["confiance"].value > ConfOne

Clamp(v) == Max(0, Min(ConfOne, v))

C6_ReturnsNumberInserted ==
    [][\A embeddings \in EmbeddingLists(MaxBatch) \cup {ScenarioBatch} :
          InsertChunks(embeddings, TRUE, TRUE) =>
              /\ collection' = collection \o WithEmbedding(last_op'.chunks)
              /\ AsInt(last_op'.ret) = Len(WithEmbedding(last_op'.chunks))]_vars

\* The scores of the stored vectors against a query
StoredScores(q) == {Cosine(q.items, collection[i].embedding.items) : i \in 1..Len(collection)}

\* The index holds [1,0,..] and [0,1,..], in this order
ScenarioIndex ==
    /\ Len(collection) = 2
    /\ collection[1].embedding = List(Vec(1, 0))
    /\ collection[2].embedding = List(Vec(0, 1))

\* The search of [1,0,..] with threshold 0.5 and limit 5 went through
ScenarioSearch ==
    /\ last_op.op = "search_similar_chunks"
    /\ last_op.up
    /\ last_op.query = List(Vec(1, 0))
    /\ last_op.threshold = 50
    /\ last_op.limit = 5

\* C7: search_similar_chunks(query, k, t) returns at most k results, each
\* with a score of at least t, and the empty list when no stored vector
\* reaches t; the scenario search over the scenario index gives exactly one
\* result, of rank 1 and score 1.0.
C7_AtMostKAllAboveThreshold ==
    last_op.op = "search_similar_chunks" =>
        /\ Len(last_op.ret) <= last_op.limit
        /\ \A i \in 1..Len(last_op.ret) : last_op.ret[i].similarity_score >= last_op.threshold
        /\ (\A sc \in StoredScores(last_op.query) : sc < last_op.threshold) => last_op.ret = <<>>
        /\ (ScenarioIndex /\ ScenarioSearch) =>
               /\ Len(last_op.ret) = 1
               /\ last_op.ret[1].rank = 1
               /\ last_op.ret[1].similarity_score = ScoreOne

C7_Witness ==
    /\ ScenarioIndex
    /\ ScenarioSearch
    /\ Len(last_op.ret) = 1

\* Scores never increase along the list and the ranks are 1, 2, ..., n
SortedAndRanked(results) ==
    /\ \A i, j \in 1..Len(results) :
          i < j => results[i].similarity_score >= results[j].similarity_score
    /\ \A i \in 1..Len(results) : results[i].rank = i

\* Results of equal score come in the order their chunks were inserted
TiesInInsertionOrder(results) ==
    \A i, j \in 1..Len(results) :
        (i < j /\ results[i].similarity_score = results[j].similarity_score)
            => results[i].position < results[j].position

\* C8 as stated: the list returned by search_similar_chunks is ordered by
\* non-increasing score, its ranks are exactly 1..n in returned order, and
\* equal scores are kept in insertion order.
C8_SortedRankedStableTies ==
    last_op.op = "search_similar_chunks" =>
        SortedAndRanked(last_op.ret) /\ TiesInInsertionOrder(last_op.ret)

\* C8: the list returned by search_similar_chunks is ordered by
\* non-increasing score and its ranks are exactly 1..n in returned order,
\* also when hits below the threshold are dropped; results of equal score
\* come in the order of the backend's hits.
C8_SortedAndRanked ==
    last_op.op = "search_similar_chunks" =>
        /\ SortedAndRanked(last_op.ret)
        /\ last_op.up =>
              \E hits \in MilvusSearch(collection, last_op.query, last_op.limit) :
                  /\ Len(last_op.ret) <= Len(hits)
                  /\ \A i \in 1..Len(last_op.ret) : last_op.ret[i].position = hits[i]

\* Two results and a hit dropped below the threshold
C8_Witness ==
    /\ last_op.op = "search_similar_chunks"
    /\ Len(last_op.ret) = 2
    /\ Len(collection) = 3
    /\ last_op.limit = MaxSimilarChunks

IsPrefix(a, b) == Len(a) <= Len(b) /\ \A i \in 1..Len(a) : a[i] = b[i]

Range(f) == {f[i] : i \in DOMAIN f}

\* C9: for a fixed index, query and k and thresholds t1 <= t2, a search at
\* t2 never returns more results than a search at t1, and its results are
\* among those the search at t1 builds from the same hits; the results of
\* find_most_similar at t2 over a fixed candidate list are among those at t1.
C9_RaisingThresholdShrinksResults ==
    /\ (last_op.op = "search_similar_chunks" /\ last_op.up) =>
          \A hits \in MilvusSearch(collection, last_op.query, last_op.limit) :
              \A t1 \in {t \in Thresholds : t <= last_op.threshold} :
                  LET r1 == ResultsOf(collection, last_op.query, hits, t1)
                      r2 == ResultsOf(collection, last_op.query, hits, last_op.threshold)
                  IN  /\ Len(last_op.ret) <= Len(r1)
                      /\ last_op.ret = r2 => IsPrefix(last_op.ret, r1)
    /\ last_op.op = "find_most_similar" =>
          \A t1 \in {t \in Thresholds : t <= last_op.threshold} :
              LET r1 == FindMostSimilarResult(last_op.query, candidates, t1)
              IN  /\ Len(last_op.ret) <= Len(r1)
                  /\ Range(last_op.ret) \subseteq Range(r1)

\* A search at 0.8 that returns something, and less than a search at 0 does
C9_Witness ==
    /\ last_op.op = "search_similar_chunks"
    /\ last_op.up
    /\ last_op.threshold = SimilarityThreshold
    /\ Len(last_op.ret) >= 1
    /\ \E r1 \in SearchSimilarChunksResults(collection, last_op.query, last_op.limit, 0, TRUE) :
          Len(r1) > Len(last_op.ret)

\* C10: no vector that fails validation reaches the index: every chunk
\* embedding handed to the collection's insert in the build phase, and every
\* question embedding handed to the collection's search in the query phase,
\* has the model dimension and only finite components.
C10_OnlyValidVectorsReachIndex ==
    /\ last_op.op = "process_knowledge_file" =>
          \A i \in 1..Len(last_op.handed) : ValidateEmbedding(last_op.handed[i].embedding)
    /\ (last_op.op = "search_for_question" /\ last_op.searched) =>
          ValidateEmbedding(last_op.embedding)

(***************************************************************************)
(* generate_embeddings_batch.                                              *)
(***************************************************************************)
\* The model fails on none of the non-blank texts of the call
ModelCallSucceeds ==
    \A i \in 1..Len(last_op.texts) : NonBlank(last_op.texts[i]) => i \notin last_op.failing

\* C11: generate_embeddings_batch(texts) returns len(texts) slots in input
\* order: slot i is None when texts[i] is blank, and is the vector of
\* texts[i] when texts[i] is not blank and the model call succeeds; blank
\* texts do not make the call fail.
C11_OneSlotPerTextInOrder ==
    last_op.op = "generate_embeddings_batch" =>
        /\ Len(last_op.ret) = Len(last_op.texts)
        /\ \A i \in 1..Len(last_op.texts) :
              /\ ~NonBlank(last_op.texts[i]) => last_op.ret[i] = None
              /\ (NonBlank(last_op.texts[i]) /\ ModelCallSucceeds) =>
                    last_op.ret[i] = List(Encode(Strip(last_op.texts[i])))

\* A blank text before a non-blank one, and the model call succeeds
C11_Witness ==
    /\ last_op.op = "generate_embeddings_batch"
    /\ Len(last_op.texts) = 2
    /\ last_op.texts[1] = <<" ">>
    /\ NonBlank(last_op.texts[2])
    /\ ModelCallSucceeds
    /\ last_op.ret[1] = None
    /\ last_op.ret[2] # None

\* C12: when the embedding of one item of a batch fails, the slots of the
\* other non-blank texts of the same call still hold their vectors.
C12_OneFailureLeavesOtherSlots ==
    last_op.op = "generate_embeddings_batch" =>
        \A i \in 1..Len(last_op.texts) :
            (NonBlank(last_op.texts[i]) /\ i \notin last_op.failing) =>
                last_op.ret[i] = List(Encode(Strip(last_op.texts[i])))

(***************************************************************************)
(* The query phase.                                                        *)
(***************************************************************************)
\* The loop body has run for 0, 1, 2, ... in this order, once each
VisitedInOrder == visits = [k \in 1..Len(visits) |-> k - 1]

\* C13: the question loop visits every extracted question exactly once, in
\* order: whatever happens to a question (no embedding, no similar chunk, no
\* answer, an exception), the loop goes on and ends with all of them visited.
C13_EveryQuestionVisitedOnceInOrder ==
    /\ [](VisitedInOrder /\ (qpc \in {"save", "done"} => Len(visits) = Len(questions)))
    /\ (qpc = "loop") ~> (qpc = "save" /\ Len(visits) = Len(questions))

\* The first question raised, the second one was answered
C13_Witness ==
    /\ qpc = "save"
    /\ Len(questions) = 2
    /\ errors = <<1>>
    /\ questions[1].reponse = None
    /\ questions[2].reponse # None

\* C14: when generate_response returns None for a question, the question's
\* answer, confidence and sources stay unset (None, None, empty list), the
\* counter of answered questions does not move, and the loop goes on to the
\* next question.
C14_NoResultLeavesQuestionUnset ==
    [][\A search_up \in BOOLEAN :
          ProcessQuestion(search_up, None, "no") =>
              /\ questions'[qi + 1].reponse = None
              /\ questions'[qi + 1].confiance = None
              /\ questions'[qi + 1].sources = <<>>
              /\ questions_with_responses' = questions_with_responses
              /\ qi' = qi + 1
              /\ qi + 1 < Len(questions) => qpc' = "loop"]_vars

\* The first of two questions found chunks and got no answer; the loop is
\* at the second
C14_Witness ==
    /\ qpc = "loop"
    /\ qi = 1
    /\ questions[1].chunks_utilises # <<>>
    /\ questions[1].reponse = None
    /\ errors = <<>>

\* The questions whose answer has been set
AnsweredQuestions == {i \in 1..Len(questions) : questions[i].reponse # None}

\* C15: the summary returned by a completed query phase has
\* questions_traitees equal to the number of extracted questions and
\* questions_avec_reponse equal to the number of questions whose answer was
\* set, so 0 <= questions_avec_reponse <= questions_traitees.
C15_SummaryCountsQuestions ==
    (qpc = "done" /\ query_result # None) =>
        /\ query_result.questions_traitees = Len(questions)
        /\ query_result.questions_avec_reponse = Cardinality(AnsweredQuestions)
        /\ 0 <= query_result.questions_avec_reponse
        /\ query_result.questions_avec_reponse <= query_result.questions_traitees

\* A summary of two questions of which one was answered
C15_Witness ==
    /\ qpc = "done"
    /\ query_result # None
    /\ query_result.questions_traitees = 2
    /\ query_result.questions_avec_reponse = 1

(***************************************************************************)
(* generate_response: failures and delays.                                 *)
(***************************************************************************)
\* The failures of one attempt named by C16
SoftFailure(reply) ==
    \/ reply.kind \in {"timeout", "connection_error"}
    \/ /\ reply.kind = "http"
       /\ \/ reply.status # 200
          \/ reply.body \in {"text", "no_choices", "empty_choices"}
          \/ /\ reply.body = "choices"
             /\ \/ reply.content.tokens = <<>>
                \/ Falsy(ExtractJsonFromText(reply.content))
                \/ ~ValidateJsonStructure(ExtractJsonFromText(reply.content), RequiredKeys)

\* C16: generate_response never raises to its caller: a non-success status,
\* an empty body, a body without an extractable JSON object, an object
\* without the answer or confidence key, a timeout or a transport exception
\* only moves on to the next attempt, or to returning None after the last.
C16_NeverRaises ==
    /\ [](lpc # "raised")
    /\ [][(GenerateResponseHandle /\ SoftFailure(last_reply)) =>
             /\ attempt' = attempt + 1
             /\ lpc' \in {"send", "return"}
             /\ lpc' = "return" => llm_result' = None]_vars

\* A call that ended after a bad status, a timeout and a transport exception
C16_Witness ==
    /\ lpc = "return"
    /\ llm_result = None
    /\ Len(log) = 3
    /\ log[1].outcome = "continue"
    /\ log[2].outcome = "timeout"
    /\ log[3].outcome = "exception"

\* C17: after a failed attempt of 0-based index a that is followed by another
\* attempt, generate_response has waited 2^a when the failure was a timeout
\* and a fixed short delay (1) when it was any other failure.
C17_DelayBeforeNextAttempt ==
    \A k \in 1..Len(log) :
        (log[k].outcome # "ok" /\ k < max_retries) =>
            log[k].slept = IF log[k].outcome = "timeout" THEN Pow2(k - 1) ELSE 1

(***************************************************************************)
(* generate_responses_batch.                                               *)
(***************************************************************************)
\* The calls of generate_response among the events, in order
CallEvents == SelectSeq(events, LAMBDA ev : ev.kind = "call")

\* C18: generate_responses_batch calls generate_response for the pairs one
\* after the other in input order and returns one slot per pair in the same
\* order; a call that fails gives None in its slot and the later pairs are
\* still processed; between two consecutive calls there is one fixed pause.
C18_BatchOneSlotPerPairInOrder ==
    /\ Len(batch_results) = bi
    /\ Len(CallEvents) = bi
    /\ \A k \in 1..Len(CallEvents) :
          /\ CallEvents[k].pair = questions_with_context[k]
          /\ batch_results[k] = CallEvents[k].response
    /\ \A k \in 1..Len(events) :
          /\ (events[k].kind = "call" /\ k < Len(events)) =>
                events[k + 1] = [kind |-> "sleep", ms |-> PauseMs]
          /\ events[k].kind = "sleep" =>
                /\ k > 1 /\ events[k - 1].kind = "call"
                /\ bpc = "return" => (k < Len(events) /\ events[k + 1].kind = "call")
    /\ bpc = "return" => Len(batch_results) = Len(questions_with_context)

\* Two pairs: the first call failed, the second one gave an answer
C18_Witness ==
    /\ bpc = "return"
    /\ Len(questions_with_context) = 2
    /\ batch_results[1] = None
    /\ batch_results[2] # None
    /\ Len(events) = 3

(***************************************************************************)
(* The index: insertion, visibility and deletion by source.                *)
(***************************************************************************)
\* The ids of the chunks a search returned
ReturnedIds(ret) == {ret[i].chunk : i \in 1..Len(ret)}

\* A step of insert_chunks on a batch that is not empty: its chunks take ids
InsertStep == next_id' > next_id

\* C19: insert_chunks reports success for a batch with embeddings only when
\* both the backend's insert and the flush after it went through (a failed
\* flush is reported as a failure), and every chunk inserted by a call that
\* reported success is returned by a following search for its vector.
C19_SuccessOnlyAfterFlushThenVisible ==
    /\ [][(InsertStep /\ WithEmbedding(last_op'.chunks) # <<>>) =>
             /\ ~last_op'.up => ~last_op'.ret
             /\ last_op'.ret =>
                   /\ collection' = collection \o WithEmbedding(last_op'.chunks)
                   /\ flushed' = Len(collection')]_vars
    /\ [][(/\ last_op.op = "insert_chunks"
           /\ last_op.ret
           /\ last_op'.op = "search_similar_chunks"
           /\ last_op'.up) =>
              \A i \in 1..Len(last_op.chunks) :
                  last_op.chunks[i].embedding = List(Vec(1, 0)) =>
                      last_op.chunks[i].id \in ReturnedIds(last_op'.ret)]_vars

\* A search over two flushed chunks that returns both
C19_Witness ==
    /\ last_op.op = "search_similar_chunks"
    /\ last_op.up
    /\ Len(collection) = 2
    /\ flushed = 2
    /\ Len(last_op.ret) = 2

\* The stored chunks whose source_file is not `source_file`, in stored order
OtherSources(coll, source_file) ==
    SelectSeq(coll, LAMBDA c : c.source_file # source_file)

\* C20: with the backend up, delete_chunks_by_source(s) removes every stored
\* chunk whose source_file is s, leaves the chunks of every other source as
\* they were, and after it reports success no chunk of s is left for a search
\* to return.
C20_DeleteRemovesExactlySource ==
    [][(last_op'.op = "delete_chunks_by_source" /\ last_op'.up) =>
          /\ collection' = OtherSources(collection, last_op'.source_file)
          /\ last_op'.ret =>
                \A i \in 1..Len(collection') :
                    collection'[i].source_file # last_op'.source_file]_vars

(***************************************************************************)
(* The build phase.                                                        *)
(***************************************************************************)
\* The stored entities that are the chunk `index` of file `source_file`
EntriesOf(source_file, index) ==
    {i \in 1..Len(collection) :
        collection[i].source_file = source_file /\ collection[i].chunk_index = index}

\* Every finished build run stored every chunk of the knowledge base
EveryRunStoredAll ==
    \A r \in 1..Len(runs_log) : runs_log[r].stored = CorpusChunks(kb_files)

\* C21: the build phase never replaces an entry: after n build runs over the
\* same knowledge base that each stored every chunk (nothing is deleted in
\* between), the index holds n entries for every chunk, same source_file and
\* chunk_index, and no two entries share an id.
C21_EveryRunAddsOneEntryPerChunk ==
    (kpc = "idle" /\ EveryRunStoredAll) =>
        /\ \A f \in 1..Len(kb_files) : \A index \in 0..(kb_files[f].nchunks - 1) :
              Cardinality(EntriesOf(kb_files[f].source_file, index)) = Len(runs_log)
        /\ \A i, j \in 1..Len(collection) :
              i # j => collection[i].id # collection[j].id

\* Two runs over a knowledge base of two files were stored in full
C21_Witness ==
    /\ kpc = "idle"
    /\ Len(runs_log) = 2
    /\ EveryRunStoredAll
    /\ Len(kb_files) = 2
    /\ CorpusChunks(kb_files) = 2
    /\ Len(collection) = 4

\* C26: vecteurs_stockes of a build run's result is the number of chunk
\* vectors the run stored in the index.
C26_VecteursStockesCountsVectors ==
    \A r \in 1..Len(runs_log) : runs_log[r].result.vecteurs_stockes = runs_log[r].stored

(***************************************************************************)
(* More properties of the chunker.                                         *)
(***************************************************************************)
\* C22: in the chunks of one source file the i-th emitted chunk (0-based) has
\* chunk_index i: the indices start at 0 and grow by one per emitted chunk, and
\* a window that is blank after trimming emits no chunk and uses no index.
C22_ChunkIndexIsPosition ==
    /\ \A i \in 1..Len(chunks) : chunks[i].chunk_index = i - 1
    /\ cpc = "loop" => chunk_index = Len(chunks)
    /\ windows # <<>> =>
          /\ Len(chunks) = Len(SolidWindows(windows))
          /\ chunk_index = Len(SolidWindows(windows))

\* The loop has returned three chunks and has dropped a blank window
C22_Witness ==
    /\ cpc = "return"
    /\ Len(chunks) = 3
    /\ Len(windows) > 3
    /\ chunks[3].chunk_index = 2

\* C23: on a text whose trimmed length is below chunk_size _create_chunks
\* never enters the windowing loop; it returns one chunk of index 0 and type
\* "single" whose content is the whole trimmed text, or no chunk when the text
\* is blank.
C23_ShortTextGivesSingleChunk ==
    (cpc # "call" /\ Len(Strip(text)) < chunk_size) =>
        /\ cpc = "return"
        /\ windows = <<>>
        /\ chunks = IF Strip(text) = <<>>
                    THEN <<>>
                    ELSE <<[content |-> Strip(text), chunk_index |-> 0,
                            chunk_type |-> "single"]>>

\* A text that is as long as chunk_size but shorter once trimmed has given a
\* single chunk
C23_Witness ==
    /\ cpc = "return"
    /\ Len(text) >= chunk_size
    /\ Len(Strip(text)) < chunk_size
    /\ Len(chunks) = 1
    /\ chunks[1].chunk_type = "single"

\* C27: the chunk of the window whose end reaches or passes the end of the
\* text is the last one emitted, no chunk's span lies inside the span of the
\* chunk before it, and every recorded end_char is at most len(text).
C27_WindowAtEndIsLast ==
    windows # <<>> =>
        \A i \in 1..Len(chunks) :
            /\ chunks[i].end_char <= Len(text)
            /\ chunks[i].end_char >= Len(text) => i = Len(chunks)
            /\ i > 1 => ~(/\ chunks[i - 1].start_char <= chunks[i].start_char
                          /\ chunks[i].end_char <= chunks[i - 1].end_char)

(***************************************************************************)
(* calculate_similarity.                                                   *)
(***************************************************************************)
\* The exact cosine of the two arguments of the call, in hundredths
ExactCosine == Cosine(last_op.embedding1.items, last_op.embedding2.items)

\* Both arguments of the call are finite non-zero vectors of one dimension
Comparable ==
    /\ ~NoEmbedding(last_op.embedding1) /\ ~NoEmbedding(last_op.embedding2)
    /\ Len(last_op.embedding1.items) = Len(last_op.embedding2.items)
    /\ last_op.embedding1.finite /\ last_op.embedding2.finite
    /\ Norm(last_op.embedding1.items) # 0 /\ Norm(last_op.embedding2.items) # 0

AnsweredColumns(sheet) ==
    {sheet.columns[i] : i \in {j \in 1..Len(sheet.columns) :
        \E q \in 1..Len(last_op.questions) :
            /\ last_op.questions[q].sheet_name = sheet.sheet_name
            /\ last_op.questions[q].column_name = sheet.columns[j]
            /\ last_op.questions[q].reponse # None}}

ColumnsOf(sheet) == {sheet.columns[i] : i \in 1..Len(sheet.columns)}

\* C25: for each question column X of a sheet that has an answered question,
\* the sheet of the output file of save_responses_to_excel has the columns
\* "X_Réponse", "X_Confiance" and "X_Sources".
C25_OutputColumnsNamed ==
    (last_op.op = "save_responses_to_excel" /\ last_op.ret # None) =>
        \A s \in 1..Len(last_op.original) :
            \A column \in AnsweredColumns(last_op.original[s]) :
                /\ (column \o <<"_Réponse">>) \in ColumnsOf(last_op.ret.sheets[s])
                /\ (column \o <<"_Confiance">>) \in ColumnsOf(last_op.ret.sheets[s])
                /\ (column \o <<"_Sources">>) \in ColumnsOf(last_op.ret.sheets[s])

(***************************************************************************)
(* More properties of the query phase.                                     *)
(***************************************************************************)
\* C28: at the end of the query phase a question whose answer is not set has
\* an empty chunks_utilises: the chunks used are recorded only when the
\* answerer succeeded.
C28_ChunksRecordedOnlyWithAnswer ==
    qpc \in {"save", "done"} =>
        \A i \in 1..Len(questions) :
            questions[i].reponse = None => questions[i].chunks_utilises = <<>>

\* The question the loop is at has an embedding
HasEmbedding == ~NoEmbedding(questions[qi + 1].question_embedding)

\* C30: every question whose processing raised an exception adds exactly one
\* entry to the error list, and no other question adds one: not a question
\* without embedding, not one whose search gave nothing (a search that failed
\* inside the index included), not one the answerer gave no result for.
C30_ErrorsOnlyForRaisedQuestions ==
    [][\A search_up \in BOOLEAN, llm_response \in GenerateResponseResults,
          raised \in {"no", "search", "answer"} :
          ProcessQuestion(search_up, llm_response, raised) =>
              /\ errors' # errors => errors' = Append(errors, qi + 1)
              /\ raised = "no" => errors' = errors
              /\ ~HasEmbedding => errors' = errors
              /\ (raised = "search" /\ HasEmbedding) => errors' = Append(errors, qi + 1)
              /\ (raised = "answer" /\ questions'[qi + 1].chunks_utilises # <<>>) =>
                    errors' = Append(errors, qi + 1)
              /\ (raised = "answer" /\ questions'[qi + 1].chunks_utilises = <<>>) =>
                    errors' = errors]_vars

\* Two questions were processed: the first raised and has the one entry of the
\* error list, the second was given no result by the answerer
C30_Witness ==
    /\ qpc = "save"
    /\ Len(questions) = 2
    /\ errors = <<1>>
    /\ questions[2].chunks_utilises # <<>>
    /\ questions[2].reponse = None

(***************************************************************************)
(* The shared connection.                                                  *)
(***************************************************************************)
\* C29: destroying one VectorStoreService instance never disconnects the
\* session "default" while another instance is alive: a session that was
\* established stays established for the instances that remain.
C29_DestroyKeepsSessionOfOthers ==
    [][(instances' # instances /\ instances' \subseteq instances
        /\ instances' # {} /\ session) => session']_vars

====
